---- MODULE Spec2Model ----
(***************************************************************************)
(* Model of src/app.py: a health-check poller that probes a prioritised    *)
(* list of URLs, keeps the highest-priority healthy URL in                 *)
(* current_healthy_url_info, notifies a webhook when it changes, and       *)
(* serves it over /status and /healthy-endpoint.                           *)
(***************************************************************************)
EXTENDS Integers, Sequences, FiniteSets, TLC

(***************************************************************************)
(* Bounds of the model.                                                    *)
(***************************************************************************)
\* Largest number of URLs in HEALTH_CHECK_URLS.
MaxEndpoints == 3
\* loop_count (and the last_checked stamps taken from it) saturates here.
MaxLoops == 2

(***************************************************************************)
(* Values.                                                                 *)
(***************************************************************************)
\* Python's None, where a URL is expected.
None == "None"
\* float('inf'): the priority of "no healthy URL"; worse than any priority.
Inf == 1000000
\* None where a priority is expected (the webhook payload, line 142).
NonePriority == 0
\* None where a last_checked stamp is expected (line 38).
NoneStamp == 0
\* The bounds of the healthy status range, 200 <= status_code < 300.
\* None where a status code is expected (line 68).
NoneStatus == 0
StatusOkLow == 200
StatusOkHigh == 300

\* The URLs a configuration may name, in configuration order.
UrlNames == <<"a", "b", "c", "d", "e">>
\* The values of HEALTH_CHECK_URLS, already split at ',' and stripped.
Configs == {SubSeq(UrlNames, 1, n) : n \in 0..MaxEndpoints}
\* The values of WEBHOOK_URL: unset, or a target.
WebhookConfigs == {None, "hook"}
\* The request handler threads of the Flask application.
Readers == {"r1"}

\* The outcomes of requests.get: a response with a status code, or one of the
\* three exception classes check_url_health catches.
StatusCodes == {199, 200, 299, 300, 500}
ProbeOutcomes ==
    [kind : {"response"}, status : StatusCodes]
    \cup [kind : {"Timeout", "RequestException", "Exception"}, status : {0}]
\* The outcomes of requests.post followed by raise_for_status.
PostOutcomes == {"ok", "HTTPError", "RequestException", "Exception"}

\* Python truthiness of a URL value: None and '' are false.
Truthy(u) == u # None /\ u # ""

VARIABLES
    URLS_WITH_PRIORITY,        \* the registry: records url, priority, healthy, last_checked
    WEBHOOK_URL,               \* None or the notification target
    current_healthy_url_info,  \* the Selection: [url, priority]
    health_status_lock,        \* "free", "poller" or the reader holding it
    pc,                        \* the Poller thread's position
    loop_count,                \* perform_health_checks' loop_count (saturating)
    idx,                       \* position of the for loop over URLS_WITH_PRIORITY
    is_healthy,                \* the value check_url_health returned
    status_code,               \* check_url_health's status_code
    error_message,             \* check_url_health's error_message
    previous_healthy_url,      \* update_overall_health_status' local, line 101
    old_healthy_url,           \* update_overall_health_status' local, line 125
    sent,                      \* calls of send_webhook_notification in the last Evaluator run
    payload,                   \* the payload of the last call
    delivery,                  \* "idle", "inflight", "ok" or "failed"
    rpc,                       \* each reader's position
    response,                  \* each reader's last response
    probe_result,              \* history: what each endpoint's last probe returned
    probed,                    \* history: endpoints probed in this cycle, in order
    eval_runs,                 \* history: Evaluator runs started in this cycle
    lastEnd,                   \* history: the flags when the last cycle's probing ended
    prevEnd,                   \* history: the same, one cycle earlier
    dirty                      \* history: a flag was written since the Selection's last update

vars == <<URLS_WITH_PRIORITY, WEBHOOK_URL, current_healthy_url_info,
          health_status_lock, pc, loop_count, idx, is_healthy, status_code,
          error_message, previous_healthy_url, old_healthy_url, sent, payload, delivery,
          rpc, response, probe_result, probed, eval_runs, lastEnd, prevEnd, dirty>>

pollerVars == <<pc, loop_count, idx, is_healthy, status_code, error_message>>
evalVars == <<previous_healthy_url, old_healthy_url, sent, payload, delivery>>
readerVars == <<rpc, response>>
histVars == <<probe_result, probed, eval_runs, lastEnd, prevEnd, dirty>>
configVars == <<WEBHOOK_URL>>

N == Len(URLS_WITH_PRIORITY)
\* The healthy flags of a registry, as a vector.
Flags(urls) == [i \in 1..Len(urls) |-> urls[i].healthy]

\* Priorities taken from enumerate without the + 1.
ParseUrlsZeroBased(config) ==
    [i \in 1..Len(config) |->
        [url |-> config[i], priority |-> i - 1, healthy |-> FALSE, last_checked |-> NoneStamp]]

\* Lines 35-38: priorities are the 1-based positions in the configuration.
ParseUrls(config) ==
    [i \in 1..Len(config) |->
        [url |-> config[i], priority |-> i, healthy |-> FALSE, last_checked |-> NoneStamp]]

\* A Selection that starts as the first configured URL.
FirstUrlInfo == [url |-> "a", priority |-> 1]

\* Line 61.
InitialInfo == [url |-> None, priority |-> Inf]

NoPayload == [previous_healthy_url |-> None, current_healthy_url |-> None,
              current_healthy_url_priority |-> NonePriority, message |-> "none"]
NoResponse == [code |-> 0, healthy_url |-> None]
\* No flag vector recorded yet.
NoVector == <<>>

Init ==
    /\ \E config \in Configs : URLS_WITH_PRIORITY = ParseUrls(config)
    /\ WEBHOOK_URL \in WebhookConfigs
    /\ current_healthy_url_info = InitialInfo
    /\ health_status_lock = "free"
    /\ pc = "start"
    /\ loop_count = 0
    /\ idx = 0
    /\ is_healthy = FALSE
    /\ status_code = NoneStatus
    /\ error_message = None
    /\ previous_healthy_url = None
    /\ old_healthy_url = None
    /\ sent = 0
    /\ payload = NoPayload
    /\ delivery = "idle"
    /\ rpc = [r \in Readers |-> "idle"]
    /\ response = [r \in Readers |-> NoResponse]
    /\ probe_result = [i \in 1..N |-> FALSE]
    /\ probed = <<>>
    /\ eval_runs = 0
    /\ lastEnd = NoVector
    /\ prevEnd = NoVector
    /\ dirty = FALSE


(***************************************************************************)
(* check_url_health, lines 64-92.                                          *)
(***************************************************************************)
\* A range check that lets the upper bound itself pass.
HealthyUpToHigh(o) ==
    o.kind = "response" /\ StatusOkLow <= o.status /\ o.status <= StatusOkHigh

\* Lines 72-83: healthy exactly for a response with 200 <= status_code < 300.
IsCurrentlyHealthy(o) ==
    o.kind = "response" /\ StatusOkLow <= o.status /\ o.status < StatusOkHigh

\* Lines 68 and 73: the status_code each outcome leaves.
StatusCode(o) == IF o.kind = "response" THEN o.status ELSE NoneStatus

\* Lines 76-83: the error_message each outcome leaves.
ErrorMessage(o) ==
    IF o.kind = "response"
    THEN IF IsCurrentlyHealthy(o) THEN None ELSE "HTTP"
    ELSE IF o.kind = "Timeout" THEN "Timeout"
    ELSE IF o.kind = "RequestException" THEN "RequestException"
    ELSE "Unexpected error"

\* A probe whose exception escapes check_url_health and lands in the handler of
\* line 208, which sleeps and starts the next iteration.
AfterProbeEscaping(o) == IF o.kind = "Exception" THEN "sleep" ELSE "write"

\* Lines 71-92: every outcome is caught, the function returns to line 198.
AfterProbe(o) == "write"

(***************************************************************************)
(* update_overall_health_status, lines 94-144.                             *)
(***************************************************************************)
\* Stable insertion of x into a priority-ascending list.
InsertByPriority(sorted, x) ==
    LET before == {k \in 1..Len(sorted) : sorted[k].priority <= x.priority}
        cut == IF before = {} THEN 0 ELSE CHOOSE k \in before : \A j \in before : j <= k
    IN  SubSeq(sorted, 1, cut) \o <<x>> \o SubSeq(sorted, cut + 1, Len(sorted))

\* A sort that puts the largest priority number first.
InsertDescending(sorted, x) ==
    LET before == {k \in 1..Len(sorted) : sorted[k].priority >= x.priority}
        cut == IF before = {} THEN 0 ELSE CHOOSE k \in before : \A j \in before : j <= k
    IN  SubSeq(sorted, 1, cut) \o <<x>> \o SubSeq(sorted, cut + 1, Len(sorted))

RECURSIVE SortedDescending(_)
SortedDescending(urls) ==
    IF urls = <<>> THEN <<>>
    ELSE InsertDescending(SortedDescending(SubSeq(urls, 1, Len(urls) - 1)), urls[Len(urls)])

\* Line 114: sorted(URLS_WITH_PRIORITY, key=priority).
RECURSIVE SortedUrls(_)
SortedUrls(urls) ==
    IF urls = <<>> THEN <<>>
    ELSE InsertByPriority(SortedUrls(SubSeq(urls, 1, Len(urls) - 1)), urls[Len(urls)])

\* A scan that takes the first entry without looking at its healthy flag.
ScanIgnoringHealth(sorted, k) ==
    IF k > Len(sorted) THEN [url |-> None, priority |-> Inf]
    ELSE [url |-> sorted[k].url, priority |-> sorted[k].priority]

\* Lines 102-103 and 116-123: the scan from position k; it stops at the first
\* healthy entry whose priority is below highest_priority_so_far (still inf).
RECURSIVE ScanFrom(_, _)
ScanFrom(sorted, k) ==
    IF k > Len(sorted) THEN [url |-> None, priority |-> Inf]
    ELSE IF sorted[k].healthy /\ sorted[k].priority < Inf
         THEN [url |-> sorted[k].url, priority |-> sorted[k].priority]
         ELSE ScanFrom(sorted, k + 1)

\* Lines 114-123: new_highest_priority_healthy_url and highest_priority_so_far.
FindHighestPriorityHealthy(urls) == ScanFrom(SortedUrls(urls), 1)

\* Lines 127-129 and 136-138: the Selection the run writes.
NewInfo(found) ==
    IF Truthy(found.url) THEN [url |-> found.url, priority |-> found.priority]
    ELSE [url |-> None, priority |-> Inf]

\* A comparison that always reports a change.
AlwaysChanged(old, new) == TRUE

\* Line 130: old_healthy_url != new_highest_priority_healthy_url.
Changed(old, new) == old # new

\* A run that reports the loss of the last healthy URL every time none is healthy.
AlwaysLost(old) == TRUE

\* A run that never sees the loss of the last healthy URL.
NeverLost(old) == FALSE

\* Line 139: old_healthy_url is not None.
LostAll(old) == old # None

\* The call with previous and current exchanged.
SwappedArgs(old, new, prio) ==
    [old_url |-> new, new_url |-> old, new_priority |-> prio]

\* The arguments of send_webhook_notification(old_url, new_url, new_priority).
CallArgs(old, new, prio) ==
    [old_url |-> old, new_url |-> new, new_priority |-> prio]

\* Lines 127-144: the calls of send_webhook_notification one run makes.
NotifyCalls(old, found, webhook) ==
    IF Truthy(found.url)
    THEN IF Changed(old, found.url) /\ Truthy(webhook)
         THEN <<CallArgs(old, found.url, found.priority)>>
         ELSE <<>>
    ELSE IF LostAll(old) /\ Truthy(webhook)
         THEN <<CallArgs(old, None, NonePriority)>>
         ELSE <<>>

(***************************************************************************)
(* send_webhook_notification, lines 146-175.                               *)
(***************************************************************************)
\* Lines 152-164 (the timestamp is left out).
Payload(args) ==
    [previous_healthy_url |-> args.old_url,
     current_healthy_url |-> args.new_url,
     current_healthy_url_priority |-> args.new_priority,
     message |-> IF Truthy(args.new_url) THEN "changed" ELSE "all_unhealthy"]

\* Lines 167-175: every failure is logged and swallowed.
DeliveryStatus(o) == IF o = "ok" THEN "ok" ELSE "failed"

\* A delivery failure that escapes to the handler of line 208.
AfterDeliveryEscaping(o) == IF o = "ok" THEN "unlock" ELSE "sleep"

\* Lines 172-175: after any outcome the function returns to its caller.
AfterDelivery(o) == "unlock"

\* A delivery handed to another thread: the caller goes on at once.
DetachedDelivery == "unlock"

\* Lines 133, 142 and 169: the caller waits in requests.post.
DuringDelivery == "notify"

(***************************************************************************)
(* get_healthy_endpoint, lines 216-224.                                    *)
(***************************************************************************)
AllDown == [code |-> 503, healthy_url |-> None]

\* A handler that answers 200 whatever the Selection is.
AlwaysOk(info) == [code |-> 200, healthy_url |-> info.url]

\* Lines 221-224.
QueryResponse(info) ==
    IF Truthy(info.url) THEN [code |-> 200, healthy_url |-> info.url]
    ELSE AllDown

(***************************************************************************)
(* perform_health_checks, lines 178-213.                                   *)
(***************************************************************************)
\* A thread that enters the loop whatever the registry holds.
NeverReturns(urls) == FALSE

\* Line 180: not URLS_WITH_PRIORITY.
ReturnsAtStart(urls) == Len(urls) = 0

\* An Evaluator call that runs after the first endpoint's write.
DoneAfterFirst(i, urls) == TRUE

\* Line 196: the for loop has no further element after position i.
LoopDone(i, urls) == i >= Len(urls)

\* Lines 178-184.
Start ==
    /\ pc = "start"
    /\ pc' = IF ReturnsAtStart(URLS_WITH_PRIORITY) THEN "done" ELSE "loop"
    /\ UNCHANGED <<URLS_WITH_PRIORITY, configVars, current_healthy_url_info,
                   health_status_lock, loop_count, idx, is_healthy, status_code, error_message,
                   evalVars, readerVars, histVars>>

\* Lines 186-195: one more iteration; an empty registry sleeps and continues.
LoopTop ==
    /\ pc = "loop"
    /\ loop_count' = IF loop_count < MaxLoops THEN loop_count + 1 ELSE loop_count
    /\ IF Len(URLS_WITH_PRIORITY) = 0
       THEN pc' = "sleep" /\ idx' = idx
       ELSE pc' = "probe" /\ idx' = 1
    /\ probed' = <<>>
    /\ eval_runs' = 0
    /\ UNCHANGED <<URLS_WITH_PRIORITY, configVars, current_healthy_url_info,
                   health_status_lock, is_healthy, status_code, error_message, evalVars,
                   readerVars, probe_result, lastEnd, prevEnd, dirty>>

\* Line 197: check_url_health(url_info), which also stamps last_checked.
CheckUrlHealth ==
    /\ pc = "probe"
    /\ \E o \in ProbeOutcomes :
        /\ is_healthy' = IsCurrentlyHealthy(o)
        /\ status_code' = StatusCode(o)
        /\ error_message' = ErrorMessage(o)
        /\ pc' = AfterProbe(o)
        /\ probe_result' = [probe_result EXCEPT ![idx] = IsCurrentlyHealthy(o)]
    /\ URLS_WITH_PRIORITY' = [URLS_WITH_PRIORITY EXCEPT ![idx].last_checked = loop_count]
    /\ probed' = Append(probed, idx)
    /\ UNCHANGED <<configVars, current_healthy_url_info, health_status_lock,
                   loop_count, idx, evalVars, readerVars, eval_runs, lastEnd,
                   prevEnd, dirty>>

\* Lines 198-199, then the loop's next element or line 202.  The locals
\* of the finished probe are dead from here on and are cleared.
WriteFlag ==
    /\ pc = "write"
    /\ health_status_lock = "free"
    /\ URLS_WITH_PRIORITY' = [URLS_WITH_PRIORITY EXCEPT ![idx].healthy = is_healthy]
    /\ is_healthy' = FALSE
    /\ status_code' = NoneStatus
    /\ error_message' = None
    /\ IF LoopDone(idx, URLS_WITH_PRIORITY)
       THEN pc' = "eval" /\ idx' = idx
       ELSE pc' = "probe" /\ idx' = idx + 1
    /\ IF idx = Len(URLS_WITH_PRIORITY)
       THEN prevEnd' = lastEnd /\ lastEnd' = Flags(URLS_WITH_PRIORITY')
       ELSE UNCHANGED <<prevEnd, lastEnd>>
    /\ dirty' = TRUE
    /\ UNCHANGED <<configVars, current_healthy_url_info, health_status_lock,
                   loop_count, evalVars, readerVars, probe_result, probed, eval_runs>>

\* Lines 101-105: the run starts and takes the lock.
EvalEnter ==
    /\ pc = "eval"
    /\ health_status_lock = "free"
    /\ previous_healthy_url' = current_healthy_url_info.url
    /\ health_status_lock' = "poller"
    /\ sent' = 0
    /\ payload' = NoPayload
    /\ delivery' = "idle"
    /\ eval_runs' = eval_runs + 1
    /\ pc' = "update"
    /\ UNCHANGED <<URLS_WITH_PRIORITY, configVars, current_healthy_url_info,
                   loop_count, idx, is_healthy, status_code, error_message, old_healthy_url,
                   readerVars, probe_result, probed, lastEnd, prevEnd, dirty>>

\* Lines 106-144 up to the call of send_webhook_notification (line 169 is
\* where the call blocks); all of it runs with the lock held.
EvalUpdate ==
    /\ pc = "update"
    /\ LET found == FindHighestPriorityHealthy(URLS_WITH_PRIORITY)
           old == current_healthy_url_info.url
           calls == NotifyCalls(old, found, WEBHOOK_URL)
       IN  /\ old_healthy_url' = old
           /\ current_healthy_url_info' = NewInfo(found)
           /\ IF calls # <<>>
              THEN /\ sent' = sent + Len(calls)
                   /\ payload' = Payload(calls[1])
                   /\ delivery' = "inflight"
                   /\ pc' = DuringDelivery
              ELSE /\ pc' = "unlock"
                   /\ UNCHANGED <<sent, payload, delivery>>
    /\ dirty' = FALSE
    /\ UNCHANGED <<URLS_WITH_PRIORITY, configVars, health_status_lock, loop_count,
                   idx, is_healthy, status_code, error_message, previous_healthy_url, readerVars,
                   probe_result, probed, eval_runs, lastEnd, prevEnd>>

\* Lines 169-175: requests.post returns or raises.
NotifyReturn ==
    /\ pc = "notify"
    /\ \E o \in PostOutcomes :
        /\ delivery' = DeliveryStatus(o)
        /\ pc' = AfterDelivery(o)
    /\ UNCHANGED <<URLS_WITH_PRIORITY, configVars, current_healthy_url_info,
                   health_status_lock, loop_count, idx, is_healthy, status_code, error_message,
                   previous_healthy_url, old_healthy_url, sent, payload,
                   readerVars, histVars>>

\* The end of the with block of line 105, then lines 204-205.
EvalExit ==
    /\ pc = "unlock"
    /\ health_status_lock' = "free"
    /\ pc' = "sleep"
    /\ UNCHANGED <<URLS_WITH_PRIORITY, configVars, current_healthy_url_info,
                   loop_count, idx, is_healthy, status_code, error_message, evalVars,
                   readerVars, histVars>>

\* time.sleep returns (lines 193, 205-206) and the while loop continues.
Wake ==
    /\ pc = "sleep"
    /\ pc' = "loop"
    /\ UNCHANGED <<URLS_WITH_PRIORITY, configVars, current_healthy_url_info,
                   health_status_lock, loop_count, idx, is_healthy, status_code, error_message,
                   evalVars, readerVars, histVars>>

\* Line 220: a request handler takes the lock.
QueryEnter(r) ==
    /\ rpc[r] = "idle"
    /\ health_status_lock = "free"
    /\ health_status_lock' = r
    /\ rpc' = [rpc EXCEPT ![r] = "locked"]
    /\ UNCHANGED <<URLS_WITH_PRIORITY, configVars, current_healthy_url_info,
                   pollerVars, evalVars, response, histVars>>

\* Lines 221-224: the handler answers and leaves the with block.
QueryReturn(r) ==
    /\ rpc[r] = "locked"
    /\ response' = [response EXCEPT ![r] = QueryResponse(current_healthy_url_info)]
    /\ health_status_lock' = "free"
    /\ rpc' = [rpc EXCEPT ![r] = "idle"]
    /\ UNCHANGED <<URLS_WITH_PRIORITY, configVars, current_healthy_url_info,
                   pollerVars, evalVars, histVars>>

Poller ==
    \/ Start
    \/ LoopTop
    \/ CheckUrlHealth
    \/ WriteFlag
    \/ EvalEnter
    \/ EvalUpdate
    \/ NotifyReturn
    \/ EvalExit
    \/ Wake

Query == \E r \in Readers : QueryEnter(r) \/ QueryReturn(r)

Next == Poller \/ Query

Spec == Init /\ [][Next]_vars


\* Scheduling: the Poller thread (started at line 231) gets to run each of
\* its steps, time.sleep and requests.post return, the with statements of
\* lines 198 and 105 get the lock when it is free again and again, and a
\* request handler that has the lock finishes lines 221-224.
\* EvalUpdate is enabled exactly when pc = "update" and always leaves it, so
\* its weak fairness is stated on the position.
Scheduling ==
    /\ WF_vars(Start)
    /\ WF_vars(LoopTop)
    /\ WF_vars(CheckUrlHealth)
    /\ SF_vars(WriteFlag)
    /\ SF_vars(EvalEnter)
    /\ []<>(pc # "update")
    /\ WF_vars(NotifyReturn)
    /\ WF_vars(EvalExit)
    /\ WF_vars(Wake)
    /\ \A r \in Readers : WF_vars(QueryReturn(r))

SpecLive == Init /\ [][Next]_vars /\ Scheduling

(***************************************************************************)
(* The loop's exception handler, lines 208-213.  No statement of an        *)
(* iteration raises on the outcomes above, so the handler is exercised by  *)
(* letting an unexpected exception come up in the statements outside       *)
(* check_url_health's and send_webhook_notification's own try blocks.      *)
(***************************************************************************)
\* A lock taken with acquire() and no finally: it stays with its holder.
LockKeptAfterRaise(holder) == holder

\* The with block of line 105 releases the lock when an exception leaves it.
LockAfterRaise(holder) == IF holder = "poller" THEN "free" ELSE holder

\* Line 208: the exception is caught inside the while loop.
AfterRaise == "except"

\* An exception in lines 195-202: in the for loop, in the flag write, or in
\* update_overall_health_status before (lines 106-123) or after (lines 131,
\* 140) the Selection is written.  Exceptions come up in the iterations
\* loop_count still tells apart.
Raise ==
    /\ pc \in {"probe", "write", "eval", "update"}
    /\ loop_count < MaxLoops
    /\ pc' = AfterRaise
    /\ health_status_lock' = LockAfterRaise(health_status_lock)
    /\ is_healthy' = FALSE
    /\ status_code' = NoneStatus
    /\ error_message' = None
    /\ \E written \in BOOLEAN :
          IF pc = "update" /\ written
          THEN /\ old_healthy_url' = current_healthy_url_info.url
               /\ current_healthy_url_info' =
                      NewInfo(FindHighestPriorityHealthy(URLS_WITH_PRIORITY))
               /\ dirty' = FALSE
          ELSE UNCHANGED <<old_healthy_url, current_healthy_url_info, dirty>>
    /\ UNCHANGED <<URLS_WITH_PRIORITY, configVars, loop_count, idx,
                   previous_healthy_url, sent, payload, delivery, readerVars,
                   probe_result, probed, eval_runs, lastEnd, prevEnd>>

\* Lines 209-213: the handler logs, sleeps one interval, and the while loop
\* goes on.
ExceptWake ==
    /\ pc = "except"
    /\ pc' = "loop"
    /\ UNCHANGED <<URLS_WITH_PRIORITY, configVars, current_healthy_url_info,
                   health_status_lock, loop_count, idx, is_healthy, status_code,
                   error_message, evalVars, readerVars, histVars>>

\* The Poller thread alone, with the exceptions.
NextFault == Poller \/ Raise \/ ExceptWake

\* time.sleep of line 213 returns, and the thread is scheduled to start the
\* while loop's next iteration (lines 186-187).
HandlerReturns == WF_vars(ExceptWake) /\ WF_vars(LoopTop)

SpecFault == Init /\ [][NextFault]_vars /\ HandlerReturns

(***************************************************************************)
(* update_overall_health_status called directly, as a unit test calls it:  *)
(* the whole function in one step, between direct writes of healthy flags. *)
(***************************************************************************)
\* A test fixture sets one endpoint's healthy flag.  Here eval_runs counts the
\* runs since the last such write, up to two.
TestSetHealthy ==
    /\ pc = "start"
    /\ \E i \in 1..Len(URLS_WITH_PRIORITY), b \in BOOLEAN :
        URLS_WITH_PRIORITY' = [URLS_WITH_PRIORITY EXCEPT ![i].healthy = b]
    /\ dirty' = TRUE
    /\ eval_runs' = 0
    /\ UNCHANGED <<configVars, current_healthy_url_info, health_status_lock,
                   pollerVars, evalVars, readerVars, probe_result, probed,
                   lastEnd, prevEnd>>

\* Lines 94-144 with the call of lines 146-175, start to end.
TestEvaluate ==
    /\ pc = "start"
    /\ health_status_lock = "free"
    /\ LET found == FindHighestPriorityHealthy(URLS_WITH_PRIORITY)
           old == current_healthy_url_info.url
           calls == NotifyCalls(old, found, WEBHOOK_URL)
       IN  /\ previous_healthy_url' = old
           /\ old_healthy_url' = old
           /\ current_healthy_url_info' = NewInfo(found)
           /\ sent' = Len(calls)
           /\ IF calls # <<>>
              THEN /\ payload' = Payload(calls[1])
                   /\ \E o \in PostOutcomes : delivery' = DeliveryStatus(o)
              ELSE /\ payload' = NoPayload
                   /\ delivery' = "idle"
    /\ eval_runs' = IF eval_runs < 2 THEN eval_runs + 1 ELSE eval_runs
    /\ dirty' = FALSE
    /\ UNCHANGED <<URLS_WITH_PRIORITY, configVars, health_status_lock, pollerVars,
                   readerVars, probe_result, probed, lastEnd, prevEnd>>

NextEval == TestSetHealthy \/ TestEvaluate

SpecEval == Init /\ [][NextEval]_vars

(***************************************************************************)
(* Properties.                                                             *)
(***************************************************************************)
\* The address of the entry with the smallest priority among those a vector
\* of booleans marks, or None when it marks none.
MinPriorityUrl(marks) ==
    LET H == {i \in 1..N : marks[i]}
    IN  IF H = {} THEN None
        ELSE URLS_WITH_PRIORITY[CHOOSE i \in H : \A j \in H :
                 URLS_WITH_PRIORITY[i].priority <= URLS_WITH_PRIORITY[j].priority].url

\* The priority the registry gives an address.
RegistryPriority(u) ==
    LET E == {i \in 1..N : URLS_WITH_PRIORITY[i].url = u}
    IN  URLS_WITH_PRIORITY[CHOOSE i \in E : TRUE].priority

\* C1: when a full cycle has completed (the Poller sleeps after the
\* Evaluator), the Selection address is the address of the endpoint with the
\* smallest priority among those probed healthy in the cycle, or None when
\* none was; no healthy endpoint has a smaller priority than the Selection's.
C1_SelectionAfterCycle ==
    (pc = "sleep" /\ N > 0) =>
        /\ current_healthy_url_info.url = MinPriorityUrl(probe_result)
        /\ \A i \in 1..N :
              probe_result[i] =>
                  current_healthy_url_info.priority <= URLS_WITH_PRIORITY[i].priority

\* Endpoint 1 probed unhealthy, 2 and 3 healthy: the Selection is endpoint 2.
C1_Witness ==
    /\ pc = "sleep"
    /\ N = 3
    /\ probe_result = <<FALSE, TRUE, TRUE>>
    /\ current_healthy_url_info = [url |-> "b", priority |-> 2]

\* C2, as claimed: in every state the Selection address is None with no
\* endpoint marked healthy, or the address of the smallest-priority endpoint
\* marked healthy.
C2_SelectionMatchesFlagsAlways ==
    current_healthy_url_info.url = MinPriorityUrl(Flags(URLS_WITH_PRIORITY))

\* C2, amended: the same, in every state where no healthy flag has been
\* written since the Selection was last updated (or since startup).
C2_SelectionMatchesFlagsWhenClean ==
    dirty \/ current_healthy_url_info.url = MinPriorityUrl(Flags(URLS_WITH_PRIORITY))

\* A later cycle has started and has not yet written a flag; the Selection is
\* the second endpoint, the best one marked healthy.
C2_Witness ==
    /\ ~dirty
    /\ pc = "write"
    /\ loop_count = 2
    /\ N = 3
    /\ Flags(URLS_WITH_PRIORITY) = <<FALSE, TRUE, TRUE>>
    /\ current_healthy_url_info.url = "b"

\* C3: with a webhook configured, whenever the last Evaluator run changed the
\* Selection address to an endpoint's address, that run called the Notifier
\* exactly once, with the previous address, the new address and the new
\* address's registry priority.
C3_NotifyOnChange ==
    ( /\ Truthy(WEBHOOK_URL)
      /\ current_healthy_url_info.url # previous_healthy_url
      /\ current_healthy_url_info.url # None ) =>
        /\ sent = 1
        /\ payload.previous_healthy_url = previous_healthy_url
        /\ payload.current_healthy_url = current_healthy_url_info.url
        /\ payload.current_healthy_url_priority =
               RegistryPriority(current_healthy_url_info.url)

\* The Selection was a, a was probed unhealthy and b healthy: the Selection
\* is b and the one notification says (a, b, 2).
C3_Witness ==
    /\ pc = "sleep"
    /\ Truthy(WEBHOOK_URL)
    /\ previous_healthy_url = "a"
    /\ probe_result[1] = FALSE
    /\ current_healthy_url_info.url = "b"
    /\ sent = 1
    /\ payload.previous_healthy_url = "a"
    /\ payload.current_healthy_url = "b"
    /\ payload.current_healthy_url_priority = 2

\* The states from the Evaluator's Selection update to the next cycle's first
\* probe, in which the Selection was an endpoint before the run and every
\* probe of the cycle was unhealthy.
AllDownTransition ==
    /\ pc \in {"notify", "unlock", "sleep", "loop"}
    /\ eval_runs = 1
    /\ previous_healthy_url # None
    /\ \A i \in 1..N : ~probe_result[i]

\* The Notifier was called once with (previous, None, no priority).
NotifiedAllDown ==
    /\ sent = 1
    /\ payload.previous_healthy_url = previous_healthy_url
    /\ payload.current_healthy_url = None
    /\ payload.current_healthy_url_priority = NonePriority

\* A Status Query that answers while the Selection is None answers all-down,
\* and the Selection changes only in the Evaluator's update.
QueriesSeeAllDown ==
    /\ \A r \in Readers :
          (rpc[r] = "locked" /\ rpc'[r] = "idle" /\ current_healthy_url_info.url = None)
              => response'[r] = AllDown
    /\ (current_healthy_url_info' # current_healthy_url_info) => pc = "update"

\* C4, as claimed: after an all-down transition the Selection is None with
\* the sentinel priority, the Notifier was called with (A, None, no
\* priority), and every Status Query until the next evaluation answers
\* all-down.
C4_AllDownAlwaysNotifies ==
    /\ [](AllDownTransition =>
            (current_healthy_url_info = InitialInfo /\ NotifiedAllDown))
    /\ [][QueriesSeeAllDown]_vars

\* C4, amended: the same, with the Notifier called when a webhook is
\* configured and not called at all when none is.
C4_AllDownNotifiesIfConfigured ==
    /\ [](AllDownTransition =>
            /\ current_healthy_url_info = InitialInfo
            /\ Truthy(WEBHOOK_URL) => NotifiedAllDown
            /\ ~Truthy(WEBHOOK_URL) => sent = 0)
    /\ [][QueriesSeeAllDown]_vars

\* The Selection was a, every endpoint was then probed unhealthy, the
\* notification (a, None) was sent and a query has answered all-down.
C4_Witness ==
    /\ pc = "sleep"
    /\ Truthy(WEBHOOK_URL)
    /\ AllDownTransition
    /\ previous_healthy_url = "a"
    /\ current_healthy_url_info = InitialInfo
    /\ NotifiedAllDown
    /\ \E r \in Readers : rpc[r] = "idle" /\ response[r] = AllDown

\* C5: an Evaluator run that leaves the Selection address as it was before
\* the run makes no call of the Notifier.
C5_NoNotifyWithoutChange ==
    (current_healthy_url_info.url = previous_healthy_url) => sent = 0

\* With a webhook configured, the Selection was None before the second
\* cycle's evaluation and is None after it, and nothing was sent.
C5_Witness ==
    /\ pc = "sleep"
    /\ loop_count = 2
    /\ Truthy(WEBHOOK_URL)
    /\ N > 0
    /\ eval_runs = 1
    /\ previous_healthy_url = None
    /\ current_healthy_url_info.url = None
    /\ sent = 0


\* C6: a run of update_overall_health_status that follows another run with no
\* healthy-flag write in between leaves the Selection (address and priority)
\* as the first run left it and makes no call of the Notifier.
C6_EvaluatorIdempotent ==
    [][(TestEvaluate /\ eval_runs >= 1 /\ ~dirty) =>
          (current_healthy_url_info' = current_healthy_url_info /\ sent' = 0)]_vars

\* Two runs in a row with a webhook configured and the second endpoint the
\* best healthy one: the Selection is that endpoint and nothing was sent.
C6_Witness ==
    /\ eval_runs = 2
    /\ ~dirty
    /\ Truthy(WEBHOOK_URL)
    /\ Flags(URLS_WITH_PRIORITY) = <<FALSE, TRUE, TRUE>>
    /\ current_healthy_url_info = [url |-> "b", priority |-> 2]
    /\ sent = 0

\* The Selection address that a complete flag vector gives; None before any
\* cycle has completed its probing.
SelectionOf(vec) == IF vec = NoVector THEN None ELSE MinPriorityUrl(vec)

\* C7: at every moment the Selection is the min-priority-healthy result of
\* the complete flag vector of a cycle whose probing has ended (the last such
\* cycle, or the one before it while the Evaluator has not yet updated the
\* Selection), or the initial None; it is never derived from the flags of a
\* cycle whose probing is still under way.
C7_NoMixedSelection ==
    /\ current_healthy_url_info.url =
           IF pc \in {"eval", "update"} THEN SelectionOf(prevEnd) ELSE SelectionOf(lastEnd)
    /\ current_healthy_url_info.priority =
           IF current_healthy_url_info.url = None THEN Inf
           ELSE RegistryPriority(current_healthy_url_info.url)

\* In the middle of the second cycle the flags mix the new outcome of the
\* first endpoint (healthy) with the old ones; a reader holds the lock, and
\* the Selection is still the second endpoint, the result of the last cycle.
C7_Witness ==
    /\ pc = "probe"
    /\ idx = 2
    /\ N = 3
    /\ lastEnd = <<FALSE, TRUE, FALSE>>
    /\ Flags(URLS_WITH_PRIORITY) = <<TRUE, TRUE, FALSE>>
    /\ current_healthy_url_info.url = "b"
    /\ \E r \in Readers : rpc[r] = "locked"

\* C8: a Status Query answers 200 with exactly the Selection address when
\* that address is not None and the all-endpoints-down 503 when it is; it
\* answers while it holds the lock, and changes neither the Selection nor a
\* healthy flag; a response is produced by no other step.
C8_StatusQuery ==
    [][\A r \in Readers :
          /\ (rpc[r] = "locked" /\ rpc'[r] = "idle") =>
                /\ health_status_lock = r
                /\ response'[r] =
                       IF current_healthy_url_info.url # None
                       THEN [code |-> 200, healthy_url |-> current_healthy_url_info.url]
                       ELSE [code |-> 503, healthy_url |-> None]
                /\ current_healthy_url_info' = current_healthy_url_info
                /\ URLS_WITH_PRIORITY' = URLS_WITH_PRIORITY
          /\ (rpc[r] = "idle" /\ rpc'[r] = "locked") =>
                /\ health_status_lock = "free"
                /\ current_healthy_url_info' = current_healthy_url_info
                /\ URLS_WITH_PRIORITY' = URLS_WITH_PRIORITY
          /\ (response'[r] # response[r]) => rpc[r] = "locked"]_vars

\* A query answered 200 with the second endpoint while it was the Selection
\* and another endpoint was marked healthy too.
C8_Witness ==
    \E r \in Readers :
        /\ rpc[r] = "idle"
        /\ response[r] = [code |-> 200, healthy_url |-> "b"]
        /\ current_healthy_url_info.url = "b"
        /\ Flags(URLS_WITH_PRIORITY) = <<FALSE, TRUE, TRUE>>

C10_ProbeFailureDoesNotAbort ==
    /\ []((pc = "sleep" /\ N > 0) =>
            /\ probed = [i \in 1..N |-> i]
            /\ eval_runs = 1
            /\ \A i \in 1..N : ~probe_result[i] => ~URLS_WITH_PRIORITY[i].healthy)
    /\ [][/\ (pc = "probe" /\ pc' # "probe" /\ error_message' # None) =>
                (pc' = "write" /\ is_healthy' = FALSE /\ idx' = idx)
          /\ (pc = "write" /\ pc' # "write") =>
                /\ URLS_WITH_PRIORITY'[idx].healthy = is_healthy
                /\ idx < N => (pc' = "probe" /\ idx' = idx + 1)
                /\ idx = N => pc' = "eval"]_vars

\* The first and the third probe of a cycle failed; all three endpoints were
\* probed, the Evaluator ran and selected the second.
C10_Witness ==
    /\ pc = "sleep"
    /\ N = 3
    /\ probed = <<1, 2, 3>>
    /\ probe_result = <<FALSE, TRUE, FALSE>>
    /\ Flags(URLS_WITH_PRIORITY) = <<FALSE, TRUE, FALSE>>
    /\ eval_runs = 1
    /\ current_healthy_url_info.url = "b"


\* C12: a delivery that fails is swallowed: the step in which requests.post
\* returns or raises changes neither a healthy flag nor the Selection and
\* hands control back to the Evaluator's caller; a failed delivery stays
\* failed until the next run starts (it is not attempted again); and a
\* delivery starts only in an Evaluator update that changes the Selection
\* address.
C12_FailedDeliverySwallowed ==
    [][/\ (pc = "notify" /\ pc' # "notify") =>
              /\ pc' = "unlock"
              /\ delivery' \in {"ok", "failed"}
              /\ current_healthy_url_info' = current_healthy_url_info
              /\ URLS_WITH_PRIORITY' = URLS_WITH_PRIORITY
              /\ sent' = sent
       /\ (delivery = "failed" /\ delivery' # "failed") =>
              (pc = "eval" /\ delivery' = "idle")
       /\ (sent' > sent \/ (delivery' = "inflight" /\ delivery # "inflight")) =>
              /\ pc = "update"
              /\ sent' = sent + 1
              /\ current_healthy_url_info'.url # current_healthy_url_info.url]_vars

\* The first cycle's notification failed; the Poller slept, probed the second
\* cycle with the same outcomes, and nothing was sent again.
C12_Witness ==
    /\ pc = "eval"
    /\ loop_count = 2
    /\ delivery = "failed"
    /\ sent = 1
    /\ lastEnd = prevEnd
    /\ current_healthy_url_info.url = "a"
    /\ payload.current_healthy_url = "a"

\* The steps of the Poller other than the return of requests.post.
PollerOtherSteps ==
    \/ Start
    \/ LoopTop
    \/ CheckUrlHealth
    \/ WriteFlag
    \/ EvalEnter
    \/ EvalUpdate
    \/ EvalExit
    \/ Wake

\* C13, as claimed: while a delivery is in flight the Poller can take a step
\* without waiting for the delivery to return.
C13_DeliveryNeverBlocksPoller ==
    (delivery = "inflight") => ENABLED PollerOtherSteps

\* C13, amended: the delivery is made by the Poller thread itself: while it is
\* in flight the Poller is inside send_webhook_notification and its only step
\* is the return of the delivery.
C13_PollerWaitsForDelivery ==
    (delivery = "inflight") =>
        /\ pc = "notify"
        /\ ~ENABLED PollerOtherSteps
        /\ ENABLED NotifyReturn

\* A delivery is in flight and the Poller waits in it.
C13_Witness ==
    /\ delivery = "inflight"
    /\ pc = "notify"
    /\ sent = 1
    /\ current_healthy_url_info.url = "a"

\* C14: whenever a delivery is in progress the lock is not held by the
\* Poller, and a Status Query that is not yet in its critical section can
\* take the lock.
C14_LockFreeDuringDelivery ==
    (delivery = "inflight") =>
        /\ health_status_lock # "poller"
        /\ \A r \in Readers : rpc[r] = "idle" => ENABLED QueryEnter(r)

\* C15: in every cycle the endpoints are probed once each in registry order,
\* which is priority-ascending; no Evaluator run starts before the flag of
\* the last endpoint is written, and exactly one has started from then until
\* the cycle ends.
C15_ProbesThenOneEvaluation ==
    /\ probed = [i \in 1..Len(probed) |-> i]
    /\ Len(probed) <= N
    /\ \A i, j \in 1..N :
          i < j => URLS_WITH_PRIORITY[i].priority < URLS_WITH_PRIORITY[j].priority
    /\ pc = "probe" => (Len(probed) = idx - 1 /\ eval_runs = 0)
    /\ pc = "write" => (Len(probed) = idx /\ eval_runs = 0)
    /\ pc = "eval" =>
          /\ Len(probed) = N
          /\ eval_runs = 0
          /\ Flags(URLS_WITH_PRIORITY) = probe_result
    /\ (pc \in {"update", "notify", "unlock", "sleep"} /\ N > 0) =>
          /\ Len(probed) = N
          /\ eval_runs = 1
          /\ Flags(URLS_WITH_PRIORITY) = probe_result

\* The second cycle of a three-endpoint registry: all three were probed in
\* order and the one Evaluator run is about to release the lock.
C15_Witness ==
    /\ pc = "unlock"
    /\ loop_count = 2
    /\ N = 3
    /\ probed = <<1, 2, 3>>
    /\ eval_runs = 1

\* C16: an endpoint whose last_checked stamp was taken by its newest probe
\* has the outcome of that probe in its healthy flag.
C16_StampAndFlagTogether ==
    \A i \in 1..N :
        URLS_WITH_PRIORITY[i].last_checked # NoneStamp =>
            URLS_WITH_PRIORITY[i].healthy = probe_result[i]

\* C17: the registry's length, addresses and priorities never change, and
\* the priorities are the 1-based positions; a healthy flag changes only in
\* the Poller's write that follows the probe of the same endpoint, to that
\* probe's outcome; the Selection changes only in the Evaluator's update,
\* under the lock, in the one run of the cycle.
C17_FrameRules ==
    /\ [](\A i \in 1..N : URLS_WITH_PRIORITY[i].priority = i)
    /\ [][/\ Len(URLS_WITH_PRIORITY') = Len(URLS_WITH_PRIORITY)
          /\ \A i \in 1..N :
                /\ URLS_WITH_PRIORITY'[i].url = URLS_WITH_PRIORITY[i].url
                /\ URLS_WITH_PRIORITY'[i].priority = URLS_WITH_PRIORITY[i].priority
                /\ (URLS_WITH_PRIORITY'[i].healthy # URLS_WITH_PRIORITY[i].healthy) =>
                      /\ pc = "write"
                      /\ pc' \in {"probe", "eval"}
                      /\ rpc' = rpc
                      /\ idx = i
                      /\ probed[Len(probed)] = i
                      /\ URLS_WITH_PRIORITY'[i].healthy = probe_result[i]
          /\ (current_healthy_url_info' # current_healthy_url_info) =>
                /\ pc = "update"
                /\ pc' \in {"notify", "unlock"}
                /\ health_status_lock = "poller"
                /\ eval_runs = 1]_vars

\* After two cycles of a two-endpoint registry the second endpoint is marked
\* healthy and selected, and the registry still holds a and b at 1 and 2.
C17_Witness ==
    /\ pc = "sleep"
    /\ loop_count = 2
    /\ N = 2
    /\ URLS_WITH_PRIORITY[1].url = "a" /\ URLS_WITH_PRIORITY[1].priority = 1
    /\ URLS_WITH_PRIORITY[2].url = "b" /\ URLS_WITH_PRIORITY[2].priority = 2
    /\ Flags(URLS_WITH_PRIORITY) = <<FALSE, TRUE>>
    /\ current_healthy_url_info = [url |-> "b", priority |-> 2]

\* A response arrived and its status is one of 200..299.
Is2xx == status_code # NoneStatus /\ status_code >= 200 /\ status_code <= 299

\* C18: the value a probe returns is True exactly when a response arrived
\* with a status from 200 to 299; every other status and every exception
\* gives False with an error message; the flag written is that value,
\* whatever the message; and the Selection after a cycle depends on the flags
\* alone.
C18_ProbeClassification ==
    /\ [](pc = "write" =>
            /\ is_healthy = Is2xx
            /\ (error_message = None) = Is2xx
            /\ (status_code = NoneStatus) =
                   (error_message \in {"Timeout", "RequestException", "Unexpected error"})
            /\ (status_code # NoneStatus /\ ~Is2xx) = (error_message = "HTTP"))
    /\ [](pc = "sleep" =>
            current_healthy_url_info.url = MinPriorityUrl(Flags(URLS_WITH_PRIORITY)))
    /\ [][(pc = "write" /\ pc' # "write") =>
              /\ URLS_WITH_PRIORITY'[idx].healthy = Is2xx
              /\ current_healthy_url_info' = current_healthy_url_info]_vars

\* A response with status 300 was classified unhealthy.
C18_Witness ==
    /\ pc = "write"
    /\ status_code = 300
    /\ is_healthy = FALSE
    /\ error_message = "HTTP"

\* No Evaluator run has updated the Selection yet.
BeforeFirstEvaluation ==
    lastEnd = NoVector \/ (prevEnd = NoVector /\ pc \in {"eval", "update"})

\* C20: at startup the Selection is None with the sentinel priority and every
\* endpoint is marked unhealthy; until the first Evaluator run has updated
\* the Selection, and at all times with an empty registry, the Selection is
\* None and every Status Query answers all-endpoints-down.
C20_AllDownBeforeFirstEvaluation ==
    /\ [](pc = "start" =>
            /\ current_healthy_url_info = [url |-> None, priority |-> Inf]
            /\ \A i \in 1..N : ~URLS_WITH_PRIORITY[i].healthy)
    /\ []((BeforeFirstEvaluation \/ N = 0) => current_healthy_url_info.url = None)
    /\ [][\A r \in Readers :
             (/\ rpc[r] = "locked"
              /\ rpc'[r] = "idle"
              /\ (BeforeFirstEvaluation \/ N = 0)) =>
                 response'[r] = [code |-> 503, healthy_url |-> None]]_vars

\* All three endpoints were probed healthy in the first cycle, the Evaluator
\* has not run yet, and a query has answered all-down.
C20_Witness ==
    /\ pc = "eval"
    /\ prevEnd = NoVector
    /\ N = 3
    /\ Flags(URLS_WITH_PRIORITY) = <<TRUE, TRUE, TRUE>>
    /\ \E r \in Readers : rpc[r] = "idle" /\ response[r] = AllDown


\* C11: with a non-empty registry the Poller thread never returns; an
\* exception raised in an iteration, also inside the Evaluator with the lock
\* held, takes the Poller to the handler's sleep with the lock released; the
\* sleep ends at the top of the while loop; and from the handler's sleep a new
\* cycle begins.
C11_LoopSurvivesErrors ==
    /\ [](N > 0 => pc # "done")
    /\ [](pc = "except" => health_status_lock # "poller")
    /\ [][(pc \in {"probe", "write", "eval", "update"}
             /\ pc' \notin {pc, "write", "probe", "eval", "update", "notify", "unlock"}) =>
              pc' = "except"]_vars
    /\ [][pc = "except" /\ pc' # pc => pc' = "loop"]_vars
    /\ (pc = "except") ~> (pc = "probe" /\ idx = 1 /\ probed = <<>>)

\* An exception came up inside the Evaluator of the first cycle, after the
\* Selection was written; the lock is free and the Poller has begun the next
\* cycle.
C11_Witness ==
    /\ pc = "probe"
    /\ idx = 1
    /\ loop_count = 2
    /\ eval_runs = 0
    /\ probed = <<>>
    /\ lastEnd # NoVector
    /\ prevEnd = NoVector
    /\ health_status_lock = "free"
    /\ current_healthy_url_info.url = "a"
    /\ sent = 0
    /\ Truthy(WEBHOOK_URL)


\* C19: with a non-empty registry and the Poller scheduled, if from some point
\* on no probe returns a different verdict for its endpoint than the probe
\* before, then from some point on the Selection is the min-priority endpoint
\* among those that probe healthy (None if there is none) and stays so, and
\* from some point on send_webhook_notification is not called any more.
C19_Convergence ==
    \/ []<><<probe_result' # probe_result>>_vars
    \/ /\ <>[](N > 0 => current_healthy_url_info.url = MinPriorityUrl(probe_result))
       /\ <>[][sent' <= sent]_vars

\* Two cycles in a row ended with the flags the probes returned, the first
\* endpoint probes unhealthy, the Selection is the second endpoint and the
\* Evaluator run of this cycle has sent nothing although a webhook is
\* configured.
C19_Witness ==
    /\ pc = "sleep"
    /\ N = 3
    /\ Truthy(WEBHOOK_URL)
    /\ probe_result = <<FALSE, TRUE, TRUE>>
    /\ lastEnd = probe_result
    /\ prevEnd = probe_result
    /\ current_healthy_url_info.url = "b"
    /\ previous_healthy_url = "b"
    /\ sent = 0

====
